---- MODULE Spec2Model ----
(***************************************************************************)
(* Model of the Stacking risk-calculator pages.                            *)
(*                                                                         *)
(*   src/streamlit_app.py  the IPN hemorrhage page: cached model, safety   *)
(*                         clip, 10 / 50 risk bands, one-page PDF report   *)
(*   src/APP.py            the earlier page: module-level model load, raw  *)
(*                         prediction shown as is                          *)
(*                                                                         *)
(* A serving process runs one of the two scripts.  Streamlit executes the  *)
(* whole script top to bottom on every page run (first load, widget        *)
(* change, button click), so one action of the model is one script run.    *)
(*                                                                         *)
(* Numbers.  A Python float is a record [nan, v]: v counts units of        *)
(* 1/Scale, so a probability of 0.0996 is v = 996 and a percent of 9.96    *)
(* is v = 99600.  nan marks float("nan"), which every comparison answers   *)
(* False.                                                                  *)
(*                                                                         *)
(* Text.  A Python str is a sequence of tokens; the characters that        *)
(* _pdf_escape rewrites are tokens of their own, and a run of other        *)
(* characters is one token.                                                *)
(***************************************************************************)
EXTENDS Integers, Sequences, FiniteSets, TLC

VARIABLES
    variant,        \* which script the process serves: "streamlit_app" | "APP"
    artifact,       \* best_model_stack.pkl on disk: "present" | "missing" | "corrupt"
    cache,          \* st.cache_resource entry of load_model: 0 (empty) or a handle
    loads,          \* successful joblib.load calls so far (the newest handle)
    rereads,        \* joblib.load calls made after the first successful one
    session_state,  \* per browser session: st.session_state["session_id"] or NoId
    run,            \* what the last script run did and rendered
    failed,         \* history: some predict request of this process has failed
    catIn,          \* categorize study: [pct, lo, hi]
    catOut,         \* categorize study: the category, or "none" before the call
    widgets,        \* the sessions whose browser shows the form and its buttons
    pdfData,        \* generate_pdf study: the report dict, in insertion order
    pdfOut          \* generate_pdf study: the document, or NoPdf before the call

vars == <<variant, artifact, cache, loads, rereads, session_state, widgets,
          run, failed, catIn, catOut, pdfData, pdfOut>>

serverVars == <<variant, artifact, cache, loads, rereads, session_state,
                widgets, run, failed>>

----------------------------------------------------------------------------
(* Units and bounds                                                        *)

\* units per 1.0 (and per percent point): four decimal places
Scale == 100 * 100

\* disk reads after the first successful load that the model follows
MaxRereads == 2

\* categorize study: thresholds lie on a grid of MaxGrid steps over 0 .. 100
MaxGrid == 4

\* generate_pdf study: the most entries a report dict holds
MaxEntries == 3

Sessions == {"s1", "s2"}
NoId == "unset"
\* "S-" + uuid.uuid4().hex[:8].upper()
SessionIdValues == {"S-0A1B2C3D", "S-4E5F6A7B"}
\* datetime.now().strftime("%Y-%m-%d %H:%M:%S")
Timestamps == {"2025-01-01 12:00:00"}

----------------------------------------------------------------------------
(* Floats                                                                  *)

F(n) == [nan |-> FALSE, v |-> n]
NaN == [nan |-> TRUE, v |-> 0]

PyLt(a, b) == ~a.nan /\ ~b.nan /\ a.v < b.v
PyGt(a, b) == ~a.nan /\ ~b.nan /\ a.v > b.v

\* min(a, b): the first argument unless the second is smaller
PyMin(a, b) == IF PyLt(b, a) THEN b ELSE a
\* max(a, b): the first argument unless the second is larger
PyMax(a, b) == IF PyGt(b, a) THEN b ELSE a

\* Fixed-point formatting ("{x:.1f}", "{x:.2f}"): the number of printed steps
\* of q units nearest to v.  A decimal tie is not a tie of the binary float
\* behind it, which lies just above or just below: both roundings can print.
FormatFixed(v, q) ==
    LET d == v \div q
        m == v % q
    IN  IF 2 * m < q THEN {d}
        ELSE IF 2 * m > q THEN {d + 1}
        ELSE {d, d + 1}

\* the str of a printed fixed-point number with one decimal ("10.0")
FixedText1(t) == <<ToString(t \div 10) \o "." \o ToString(t % 10)>>

----------------------------------------------------------------------------
(* generate_pdf (streamlit_app.py)                                         *)

\* str.replace(old, new) over tokens; new is a token sequence
RECURSIVE Replace(_, _, _)
Replace(text, old, new) ==
    IF text = <<>> THEN <<>>
    ELSE (IF Head(text) = old THEN new ELSE <<Head(text)>>)
         \o Replace(Tail(text), old, new)

_pdf_escape(text) ==
    Replace(Replace(Replace(text, "\\", <<"\\", "\\">>),
                    "(", <<"\\", "(">>),
            ")", <<"\\", ")">>)

\* Python values that reach an f-string: a str or an int
PyStr(t) == [type |-> "str", n |-> 0, s |-> t]
PyInt(n) == [type |-> "int", n |-> n, s |-> <<>>]

\* str(x) inside an f-string: an int prints its decimal digits
Str(x) == IF x.type = "int" THEN <<ToString(x.n)>> ELSE x.s

\* f"{k}: {v}"
KeyValueLine(k, v) == Str(k) \o <<": ">> \o Str(v)

\* lines: the title block, then one line per dict item, in the dict's order
PdfLines(data) ==
    <<  <<"Xiangya Hospital">>,
        <<"IPN Intra-Abdominal Hemorrhage Risk Report">>,
        <<>>  >>
    \o [i \in 1..Len(data) |-> KeyValueLine(data[i][1], data[i][2])]

\* one line of the content stream: an operator, its numbers, its string
PdfOp(op, args, text) == [op |-> op, args |-> args, text |-> text]

\* the loop over lines: the first is shown where Tm put it, each later one
\* after a T*
RECURSIVE ShowLines(_, _)
ShowLines(lines, first) ==
    IF lines = <<>> THEN <<>>
    ELSE (IF first
          THEN <<PdfOp("Tj", <<>>, _pdf_escape(Head(lines)))>>
          ELSE <<PdfOp("T*", <<>>, <<>>),
                 PdfOp("Tj", <<>>, _pdf_escape(Head(lines)))>>)
         \o ShowLines(Tail(lines), FALSE)

\* a mutant of content_lines: the T* before a later line is forgotten
ContentLinesNoAdvance(lines) ==
    <<PdfOp("BT", <<>>, <<>>),
      PdfOp("Tf", <<12>>, <<"/F1">>),
      PdfOp("TL", <<14>>, <<>>),
      PdfOp("Tm", <<1, 0, 0, 1, 50, 800>>, <<>>)>>
    \o [i \in 1..Len(lines) |-> PdfOp("Tj", <<>>, _pdf_escape(lines[i]))]
    \o <<PdfOp("ET", <<>>, <<>>)>>

ContentLines(lines) ==
    <<PdfOp("BT", <<>>, <<>>),
      PdfOp("Tf", <<12>>, <<"/F1">>),
      PdfOp("TL", <<14>>, <<>>),
      PdfOp("Tm", <<1, 0, 0, 1, 50, 800>>, <<>>)>>
    \o ShowLines(lines, TRUE)
    \o <<PdfOp("ET", <<>>, <<>>)>>

\* tokens that str.encode("latin-1") cannot encode
NonLatin1 == {"U+20AC"}

Latin1Encodable(content) ==
    \A i \in 1..Len(content) :
        \A j \in 1..Len(content[i].text) : content[i].text[j] \notin NonLatin1

NoPdf == [status |-> "none", content |-> <<>>, kids |-> <<>>, count |-> 0,
          mediabox |-> <<>>]

\* the document: the content stream of object 4, and what objects 2 and 3
\* declare (/Kids [3 0 R] /Count 1, /MediaBox [0 0 595 842]).  A text that
\* latin-1 cannot encode raises UnicodeEncodeError and no bytes are returned.
generate_pdf(data) ==
    LET content_lines == ContentLines(PdfLines(data))
    IN  IF Latin1Encodable(content_lines)
        THEN [status |-> "pdf", content |-> content_lines, kids |-> <<3>>,
              count |-> 1, mediabox |-> <<0, 0, 595, 842>>]
        ELSE [status |-> "UnicodeEncodeError", content |-> <<>>, kids |-> <<>>,
              count |-> 0, mediabox |-> <<>>]

(* The report dicts of the study. *)
PdfKeys == { PyStr(<<"Risk category">>),
             PyStr(<<"Age ", "(", "years", ")">>),
             PyStr(<<"path C:", "\\", "(", "x">>),
             PyInt(7) }
PdfValues == { PyStr(<<>>), PyStr(<<")", "\\">>),
               PyStr(<<"\\", "\\", "(">>), PyStr(<<"caf", "U+20AC">>),
               PyInt(120) }

RECURSIVE Dicts(_, _)
Dicts(n, keys) ==
    IF n = 0 THEN {<<>>}
    ELSE {<<>>} \cup
         { <<<<k, v>>>> \o rest : k \in keys, v \in PdfValues,
                                  rest \in Dicts(n - 1, keys) }

DistinctKeys(d) == \A i, j \in 1..Len(d) : i # j => d[i][1] # d[j][1]

PdfInputs == { d \in Dicts(MaxEntries, PdfKeys) : DistinctKeys(d) }

PdfIdle == pdfData = <<>> /\ pdfOut = NoPdf

GeneratePdfCall ==
    /\ pdfOut.status = "none"
    /\ pdfOut' = generate_pdf(pdfData)
    /\ UNCHANGED <<serverVars, catIn, catOut, pdfData>>

----------------------------------------------------------------------------
(* The risk bands (streamlit_app.py, predict flow)                         *)

LowThreshold == 10
HighThreshold == 50

\* a mutant of categorize: a percent equal to a threshold stays in the lower band
CategorizeTiesLow(pct, low, high) ==
    IF ~PyGt(pct, F(low * Scale)) THEN "Low"
    ELSE IF ~PyGt(pct, F(high * Scale)) THEN "Intermediate"
    ELSE "High"

\* a mutant of categorize: a percent equal to the upper threshold stays
\* Intermediate
CategorizeUpperTieLoses(pct, low, high) ==
    IF PyLt(pct, F(low * Scale)) THEN "Low"
    ELSE IF ~PyGt(pct, F(high * Scale)) THEN "Intermediate"
    ELSE "High"

\* if pct < 10: Low / elif pct < 50: Intermediate / else: High, with the two
\* literals as parameters (in percent points)
categorize(pct, low, high) ==
    IF PyLt(pct, F(low * Scale)) THEN "Low"
    ELSE IF PyLt(pct, F(high * Scale)) THEN "Intermediate"
    ELSE "High"

\* prob = max(0.0, min(prob, 1.0))
SafetyClip(prob) == PyMax(F(0), PyMin(prob, F(Scale)))

\* pct = prob * 100
Percent(prob) == [nan |-> prob.nan, v |-> prob.v * 100]

(* The study of the band rule over thresholds other than 10 and 50. *)
Grid == {(i * 100) \div MaxGrid : i \in 0..MaxGrid} \cup {LowThreshold, HighThreshold}

\* percents at and next to every grid point, in units
GridPercents ==
    {p \in {g * Scale + d : g \in Grid, d \in {-1, 0, 1}} : 0 <= p /\ p <= 100 * Scale}

CatIdle == catIn = [pct |-> 0, lo |-> 0, hi |-> 0] /\ catOut = "none"

CategorizeCall ==
    /\ catOut = "none"
    /\ catOut' = categorize(F(catIn.pct), catIn.lo, catIn.hi)
    /\ UNCHANGED <<serverVars, catIn, pdfData, pdfOut>>

----------------------------------------------------------------------------
(* Widgets                                                                 *)

\* the forms the users of the study fill in, in the order of X: organ
\* failure, pancreatic fistula, MDRO, bloodstream infection, age, duration of
\* organ failure, onset-to-intervention interval.  Some lie outside the
\* declared domain of a field.
Forms ==
    { <<0, 0, 0, 0, 60, 0, 0>>,
      <<2, 1, 1, 1, 120, 365, 365>>,
      <<1, 0, 1, 0, 0, 14, 30>>,
      <<0, 0, 0, 0, -1, 0, 0>>,
      <<1, 1, 0, 0, 121, 0, 0>>,
      <<2, 0, 0, 1, 60, 366, 0>>,
      <<0, 1, 0, 0, 60, 0, -7>>,
      <<3, 0, 0, 0, 60, 0, 0>>,
      <<0, 0, 2, 0, 60, 0, 0>> }

\* st.selectbox(label, options) returns one of the options
SelectBox(v, options) == v \in options

\* st.number_input(label, min_value, max_value) returns the typed integer,
\* which the widget accepts only inside [min_value, max_value]; without the
\* two limits (bounded = FALSE) it accepts any integer
NumberInput(v, bounded, min_value, max_value) ==
    bounded => (min_value <= v /\ v <= max_value)

\* the widget values streamlit_app.py can read (lines 164-214)
StreamlitInputs ==
    { f \in Forms :
        /\ SelectBox(f[1], {0, 1, 2})
        /\ SelectBox(f[2], {0, 1})
        /\ SelectBox(f[3], {0, 1})
        /\ SelectBox(f[4], {0, 1})
        /\ NumberInput(f[5], TRUE, 0, 120)
        /\ NumberInput(f[6], TRUE, 0, 365)
        /\ NumberInput(f[7], TRUE, 0, 365) }

\* the widget values APP.py can read (lines 24-30)
AppInputs ==
    { f \in Forms :
        /\ SelectBox(f[1], {0, 1, 2})
        /\ SelectBox(f[2], {0, 1})
        /\ SelectBox(f[3], {0, 1})
        /\ SelectBox(f[4], {0, 1})
        /\ NumberInput(f[5], FALSE, 0, 0)
        /\ NumberInput(f[6], FALSE, 0, 0)
        /\ NumberInput(f[7], FALSE, 0, 0) }

----------------------------------------------------------------------------
(* The model artifact and the classifier                                   *)

\* joblib.load(path)
joblib_load(art) ==
    IF art = "present" THEN "ok"
    ELSE IF art = "missing" THEN "FileNotFoundError"
    ELSE "UnpicklingError"

\* a mutant of load_model: a failed load is memoized too
LoadModelCachesFailure(c, art, n) ==
    IF c # 0
    THEN [raised |-> "none", model |-> c, cache |-> c, reads |-> 0, loads |-> n]
    ELSE IF joblib_load(art) = "ok"
    THEN [raised |-> "none", model |-> n + 1, cache |-> n + 1, reads |-> 1,
          loads |-> n + 1]
    ELSE [raised |-> "none", model |-> -1, cache |-> -1, reads |-> 1,
          loads |-> n]

\* @st.cache_resource load_model(): the cached handle when there is one (no
\* disk read); otherwise joblib.load, whose result is cached when it returns
\* and whose exception leaves the cache as it was.  c is the cache entry, n
\* the number of handles made so far; handle k is the k-th successful load.
load_model(c, art, n) ==
    IF c # 0
    THEN [raised |-> "none", model |-> c, cache |-> c, reads |-> 0, loads |-> n]
    ELSE IF joblib_load(art) = "ok"
    THEN [raised |-> "none", model |-> n + 1, cache |-> n + 1, reads |-> 1,
          loads |-> n + 1]
    ELSE [raised |-> joblib_load(art), model |-> 0, cache |-> c, reads |-> 1,
          loads |-> n]

\* what the classifier can answer to one call: a float (in range, out of
\* range, nan) or an exception
RawValues ==
    { F(-5000), F(0), F(500), F(995), F(996), F(999), F(1000), F(4996),
      F(4999), F(5000), F(Scale), F(15000), NaN }
Returns(r) == [kind |-> "return", value |-> r]
Raises == [kind |-> "raise", value |-> F(0)]
NotCalled == [kind |-> "none", value |-> F(0)]
ScorerOutcomes == {Returns(r) : r \in RawValues} \cup {Raises}

----------------------------------------------------------------------------
(* One script run                                                          *)

NoResult == [has |-> FALSE, nan |-> FALSE, value |-> 0, pct |-> 0,
             printed |-> 0, cat |-> "none"]

\* kind: "none" | "idle" | "predict" | "reset"; avail: the artifact as the run
\* found it; x: the widget values of a predict request; out: what the
\* classifier answers to it; scored: the vector the classifier was called
\* with; handle: the model object it was called on; rendered: the page
\* sections the run reached
BlankRun ==
    [kind |-> "none", session |-> "none", avail |-> "present", x |-> <<>>,
     out |-> NotCalled, loadFailed |-> FALSE, crashed |-> FALSE,
     error |-> "none", scored |-> <<>>, handle |-> 0, result |-> NoResult,
     download |-> FALSE, rendered |-> {}]

\* report_data of the predict flow, in insertion order
ReportData(session_id, timestamp, printed, risk_cat, x) ==
    << <<PyStr(<<"Session ID">>), PyStr(<<session_id>>)>>,
       <<PyStr(<<"Timestamp">>), PyStr(<<timestamp>>)>>,
       <<PyStr(<<"Hemorrhage risk ", "(", "%", ")">>), PyStr(FixedText1(printed))>>,
       <<PyStr(<<"Risk category">>), PyStr(<<risk_cat>>)>>,
       <<PyStr(<<"Organ failure ", "(", "0/1/2", ")">>), PyInt(x[1])>>,
       <<PyStr(<<"Pancreatic fistula ", "(", "0/1", ")">>), PyInt(x[2])>>,
       <<PyStr(<<"Pus MDRO infection ", "(", "0/1", ")">>), PyInt(x[3])>>,
       <<PyStr(<<"Bloodstream infection ", "(", "0/1", ")">>), PyInt(x[4])>>,
       <<PyStr(<<"Age ", "(", "years", ")">>), PyInt(x[5])>>,
       <<PyStr(<<"OF duration ", "(", "days", ")">>), PyInt(x[6])>>,
       <<PyStr(<<"Onset-to-intervention ", "(", "days", ")">>), PyInt(x[7])>> >>

\* what "{pct:.1f}" can print for the classifier's answer
PrintedPercents(out) ==
    IF out.kind = "return"
    THEN FormatFixed(Percent(SafetyClip(out.value)).v, Scale \div 10)
    ELSE {0}

\* pdf_bytes = generate_pdf(report_data), tabulated once over the reports the
\* predict flow of the study can assemble
ReportArgs ==
    [session_id : SessionIdValues, timestamp : Timestamps,
     printed : UNION {PrintedPercents(o) : o \in ScorerOutcomes},
     risk_cat : {"Low", "Intermediate", "High"}, x : StreamlitInputs]

PdfTable ==
    { <<a, generate_pdf(ReportData(a.session_id, a.timestamp, a.printed,
                                   a.risk_cat, a.x))>> : a \in ReportArgs }

PdfOfReport(a) == (CHOOSE p \in PdfTable : p[1] = a)[2]

\* the predict branch of streamlit_app.py: the try block and its two handlers.
\* lm is what load_model() did, printed the "{pct:.1f}" of the card and of
\* the report.
StreamlitPredict(s, session_id, timestamp, x, out, lm, printed) ==
    LET base == [BlankRun EXCEPT !.kind = "predict", !.session = s,
                                 !.avail = artifact, !.x = x, !.out = out,
                                 !.rendered = {"overview", "explanation"}]
    IN  IF lm.raised = "FileNotFoundError"
        THEN [base EXCEPT !.loadFailed = TRUE, !.error = "FileNotFound"]
        ELSE IF lm.raised # "none"
        THEN [base EXCEPT !.loadFailed = TRUE, !.error = "Unexpected"]
        ELSE IF lm.model < 1 \/ out.kind # "return"
        THEN [base EXCEPT !.scored = x, !.handle = lm.model,
                          !.error = "Unexpected"]
        ELSE
        LET prob == SafetyClip(out.value)
            pct == Percent(prob)
            risk_cat == categorize(pct, LowThreshold, HighThreshold)
            pdf_bytes == PdfOfReport([session_id |-> session_id,
                                      timestamp |-> timestamp,
                                      printed |-> printed,
                                      risk_cat |-> risk_cat, x |-> x])
            card == [base EXCEPT
                       !.scored = x, !.handle = lm.model,
                       !.result = [has |-> TRUE, nan |-> prob.nan,
                                   value |-> prob.v, pct |-> pct.v,
                                   printed |-> printed, cat |-> risk_cat],
                       !.rendered = @ \cup {"card", "progress"}]
        IN  IF pdf_bytes.status = "pdf"
            THEN [card EXCEPT !.download = TRUE]
            ELSE [card EXCEPT !.error = "Unexpected"]

\* lines 30-32: the session keeps its id, or gets one on its first run
SessionIds(s) ==
    IF session_state[s] = NoId THEN SessionIdValues ELSE {session_state[s]}

\* streamlit_app.py, no button pressed (first load, widget change)
StreamlitPageRun(s) ==
    /\ variant = "streamlit_app"
    /\ \E id \in SessionIds(s) :
         session_state' = [session_state EXCEPT ![s] = id]
    /\ widgets' = widgets \cup {s}
    /\ run' = [BlankRun EXCEPT !.kind = "idle", !.session = s,
                               !.avail = artifact,
                               !.rendered = {"info", "overview", "explanation"}]
    /\ UNCHANGED <<variant, artifact, cache, loads, rereads, failed>>

\* streamlit_app.py, "Reset session" pressed: a new id, then
\* st.experimental_rerun(), which runs the script again with no button
StreamlitReset(s) ==
    /\ variant = "streamlit_app"
    /\ s \in widgets
    /\ \E id \in SessionIdValues :
         session_state' = [session_state EXCEPT ![s] = id]
    /\ run' = [BlankRun EXCEPT !.kind = "reset", !.session = s,
                               !.avail = artifact,
                               !.rendered = {"info", "overview", "explanation"}]
    /\ UNCHANGED <<variant, artifact, cache, loads, rereads, widgets, failed>>

\* streamlit_app.py, "Predict hemorrhage risk" pressed
StreamlitPredictRun(s) ==
    /\ variant = "streamlit_app"
    /\ s \in widgets
    /\ LET lm == load_model(cache, artifact, loads)
           again == IF loads >= 1 THEN lm.reads ELSE 0
       IN  /\ rereads + again <= MaxRereads
           /\ cache' = lm.cache
           /\ loads' = lm.loads
           /\ rereads' = rereads + again
           /\ \E x \in StreamlitInputs, timestamp \in Timestamps,
                 out \in (IF lm.raised = "none" THEN ScorerOutcomes ELSE {NotCalled}) :
                \E printed \in PrintedPercents(out) :
                   run' = StreamlitPredict(s, session_state[s], timestamp, x,
                                           out, lm, printed)
    /\ failed' = (failed \/ run'.error # "none")
    /\ UNCHANGED <<variant, artifact, session_state, widgets>>

\* what "{prediction:.2f}" can print
PrintedPredictions(out) ==
    IF out.kind = "return" /\ ~out.value.nan
    THEN FormatFixed(out.value.v, Scale \div 100)
    ELSE {0}

\* APP.py lines 8-9: the module-level joblib.load of every script run
AppLoad(art, n) ==
    IF joblib_load(art) = "ok"
    THEN [raised |-> "none", model |-> n + 1, reads |-> 1, loads |-> n + 1]
    ELSE [raised |-> joblib_load(art), model |-> 0, reads |-> 1, loads |-> n]

\* APP.py from line 12 on, once the model is loaded; out is NotCalled when
\* the predict button was not pressed
AppPage(s, kind, x, out, model, printed) ==
    LET base == [BlankRun EXCEPT !.kind = kind, !.session = s,
                                 !.avail = artifact, !.x = x, !.out = out,
                                 !.rendered = {"title", "explanation"}]
    IN  IF kind # "predict" THEN base
        ELSE IF out.kind # "return"
        THEN [base EXCEPT !.scored = x, !.handle = model,
                          !.error = "Unexpected"]
        ELSE [base EXCEPT !.scored = x, !.handle = model,
                          !.result = [has |-> TRUE, nan |-> out.value.nan,
                                      value |-> out.value.v, pct |-> 0,
                                      printed |-> printed, cat |-> "none"],
                          !.rendered = @ \cup {"success"}]

\* APP.py when joblib.load raises at line 9: nothing catches it, the run
\* ends there and the page shows the traceback only
AppCrash(s, kind) ==
    [BlankRun EXCEPT !.kind = kind, !.session = s, !.avail = artifact,
                     !.loadFailed = TRUE, !.crashed = TRUE,
                     !.error = "Traceback"]

\* one run of APP.py; kind "predict" when the button was pressed
AppRun(s, kind) ==
    /\ variant = "APP"
    /\ kind = "predict" => s \in widgets
    /\ LET am == AppLoad(artifact, loads)
           again == IF loads >= 1 THEN am.reads ELSE 0
       IN  /\ rereads + again <= MaxRereads
           /\ loads' = am.loads
           /\ rereads' = rereads + again
           /\ IF am.raised # "none"
              THEN /\ run' = AppCrash(s, kind)
                   /\ widgets' = widgets \ {s}
              ELSE /\ widgets' = widgets \cup {s}
                   /\ IF kind = "predict"
                      THEN \E x \in AppInputs, out \in ScorerOutcomes :
                             \E printed \in PrintedPredictions(out) :
                                run' = AppPage(s, kind, x, out, am.model, printed)
                      ELSE run' = AppPage(s, kind, <<>>, NotCalled, am.model, 0)
    /\ failed' = (failed \/ (kind = "predict" /\ run'.error # "none"))
    /\ UNCHANGED <<variant, artifact, cache, session_state>>

AppPageRun(s) == AppRun(s, "idle")
AppPredictRun(s) == AppRun(s, "predict")

\* the operator of the server puts, removes or damages best_model_stack.pkl
ArtifactChanges(a) ==
    /\ a # artifact
    /\ artifact' = a
    /\ UNCHANGED <<variant, cache, loads, rereads, session_state, widgets, run,
                   failed>>

----------------------------------------------------------------------------
(* Specifications                                                          *)

ServerIdle ==
    /\ variant = "streamlit_app" /\ artifact = "present"
    /\ cache = 0 /\ loads = 0 /\ rereads = 0
    /\ session_state = [s \in Sessions |-> NoId]
    /\ widgets = {}
    /\ run = BlankRun
    /\ failed = FALSE

\* a serving process of either page
Init ==
    /\ variant \in {"streamlit_app", "APP"}
    /\ artifact \in {"present", "missing", "corrupt"}
    /\ cache = 0 /\ loads = 0 /\ rereads = 0
    /\ session_state = [s \in Sessions |-> NoId]
    /\ widgets = {}
    /\ run = BlankRun
    /\ failed = FALSE
    /\ CatIdle
    /\ PdfIdle

Next ==
    \/ \E s \in Sessions : StreamlitPageRun(s) /\ UNCHANGED <<catIn, catOut, pdfData, pdfOut>>
    \/ \E s \in Sessions : StreamlitReset(s) /\ UNCHANGED <<catIn, catOut, pdfData, pdfOut>>
    \/ \E s \in Sessions : StreamlitPredictRun(s) /\ UNCHANGED <<catIn, catOut, pdfData, pdfOut>>
    \/ \E s \in Sessions : AppPageRun(s) /\ UNCHANGED <<catIn, catOut, pdfData, pdfOut>>
    \/ \E s \in Sessions : AppPredictRun(s) /\ UNCHANGED <<catIn, catOut, pdfData, pdfOut>>
    \/ \E a \in {"present", "missing", "corrupt"} :
         ArtifactChanges(a) /\ UNCHANGED <<catIn, catOut, pdfData, pdfOut>>

Spec == Init /\ [][Next]_vars

\* the band rule applied to one percent under one pair of thresholds
InitCat ==
    /\ ServerIdle
    /\ catIn \in [pct : GridPercents, lo : Grid, hi : Grid]
    /\ catOut = "none"
    /\ PdfIdle

NextCat == CategorizeCall

SpecCat == InitCat /\ [][NextCat]_vars

\* generate_pdf applied to one report dict
InitPdf ==
    /\ ServerIdle
    /\ CatIdle
    /\ pdfData \in PdfInputs
    /\ pdfOut = NoPdf

NextPdf == GeneratePdfCall

SpecPdf == InitPdf /\ [][NextPdf]_vars

----------------------------------------------------------------------------
(* What a PDF viewer shows for a content stream                            *)

\* the characters of a literal string ( ... ) as the viewer reads them: a
\* backslash makes the next character literal; a bare parenthesis would end
\* or nest the string, and the line is then not the text that was written
RECURSIVE LiteralText(_)
LiteralText(text) ==
    IF text = <<>> THEN <<>>
    ELSE IF Head(text) = "\\"
    THEN IF Len(text) = 1 THEN <<"<broken>">>
         ELSE <<text[2]>> \o LiteralText(Tail(Tail(text)))
    ELSE IF Head(text) \in {"(", ")"} THEN <<"<broken>">>
    ELSE <<Head(text)>> \o LiteralText(Tail(text))

\* the text lines shown, in order, each with the position of its start: Tm
\* sets the line start, TL the leading, T* moves one leading down, Tj shows
RECURSIVE ShownLines(_, _, _, _)
ShownLines(ops, x, y, leading) ==
    IF ops = <<>> THEN <<>>
    ELSE LET o == Head(ops)
         IN  IF o.op = "Tm" THEN ShownLines(Tail(ops), o.args[5], o.args[6], leading)
             ELSE IF o.op = "TL" THEN ShownLines(Tail(ops), x, y, o.args[1])
             ELSE IF o.op = "T*" THEN ShownLines(Tail(ops), x, y - leading, leading)
             ELSE IF o.op = "Tj"
             THEN <<[x |-> x, y |-> y, text |-> LiteralText(o.text)]>>
                  \o ShownLines(Tail(ops), x, y, leading)
             ELSE ShownLines(Tail(ops), x, y, leading)

OpCount(content, op) == Cardinality({i \in 1..Len(content) : content[i].op = op})

----------------------------------------------------------------------------
(* Claims                                                                  *)

\* C1: in the predict flow of streamlit_app.py every percent in [0, 100] gets
\* exactly one category: Low exactly when pct < 10, Intermediate exactly when
\* 10 <= pct < 50, High exactly when pct >= 50.
C1_RiskBands ==
    (variant = "streamlit_app" /\ run.result.has) =>
        /\ 0 <= run.result.pct /\ run.result.pct <= 100 * Scale
        /\ run.result.cat \in {"Low", "Intermediate", "High"}
        /\ run.result.cat = "Low" <=> run.result.pct < 10 * Scale
        /\ run.result.cat = "Intermediate" <=>
              (10 * Scale <= run.result.pct /\ run.result.pct < 50 * Scale)
        /\ run.result.cat = "High" <=> run.result.pct >= 50 * Scale

\* C1 witness: a prediction of exactly 10.00 percent, shown as Intermediate
C1_Witness ==
    /\ variant = "streamlit_app" /\ run.result.has
    /\ run.result.pct = 10 * Scale
    /\ run.result.cat = "Intermediate"

\* C2 as claimed: for all thresholds 0 <= lo <= hi <= 100, lo = hi included,
\* categorize(lo, lo, hi) is Intermediate and categorize(hi, lo, hi) is High.
C2_BoundaryLawAsClaimed ==
    (catOut # "none" /\ catIn.lo <= catIn.hi) =>
        /\ catIn.pct = catIn.lo * Scale => catOut = "Intermediate"
        /\ catIn.pct = catIn.hi * Scale => catOut = "High"

\* C2 as amended: for all thresholds 0 <= lo <= hi <= 100,
\* categorize(hi, lo, hi) is High, and categorize(lo, lo, hi) is Intermediate
\* when lo < hi (when lo = hi the Intermediate band is empty and it is High).
C2_BoundaryLaw ==
    (catOut # "none" /\ catIn.lo <= catIn.hi) =>
        /\ (catIn.pct = catIn.lo * Scale /\ catIn.lo < catIn.hi)
              => catOut = "Intermediate"
        /\ catIn.pct = catIn.hi * Scale => catOut = "High"

\* C2 witness: a percent on the lower of two distinct thresholds
C2_Witness ==
    /\ catIn.lo < catIn.hi
    /\ catIn.pct = catIn.lo * Scale
    /\ catOut = "Intermediate"

\* C3: in every app variant the probability that is displayed, bucketed and
\* exported lies in [0, 1], whatever the model returned.
C3_ClampLaw ==
    run.result.has =>
        /\ ~run.result.nan
        /\ 0 <= run.result.value /\ run.result.value <= Scale

\* C4: in every app variant a run that finds the model artifact missing or
\* unloadable shows an error message, produces no probability, category,
\* card or report, does not crash, and still renders the rest of the page.
C4_ModelUnavailable ==
    run.loadFailed =>
        /\ run.error # "none"
        /\ ~run.result.has /\ ~run.download
        /\ ~run.crashed
        /\ "explanation" \in run.rendered

\* C5: in every app variant, once a load has succeeded the artifact is not
\* read from disk again, and every predict request uses that one handle.
C5_LoadOnce ==
    /\ loads <= 1
    /\ rereads = 0
    /\ run.handle \in {0, 1}

\* C6: in streamlit_app.py, whatever requests failed before, a predict request
\* made with the artifact available and answered by the classifier gives the
\* probability and category of its own inputs, and the memoized handle is
\* either empty or a fully loaded model.
C6_RequestScoped ==
    variant = "streamlit_app" =>
        /\ cache \in 0..loads
        /\ (run.kind = "predict" /\ run.avail = "present"
              /\ run.out.kind = "return") =>
              /\ run.error = "none"
              /\ run.scored = run.x
              /\ run.handle = cache /\ cache >= 1
              /\ run.result.has
              /\ run.result.value = SafetyClip(run.out.value).v
              /\ run.result.cat =
                    categorize(Percent(SafetyClip(run.out.value)), 10, 50)
              /\ run.download

\* C6 witness: a prediction delivered after an earlier request had failed
C6_Witness ==
    /\ variant = "streamlit_app"
    /\ failed
    /\ run.kind = "predict" /\ run.avail = "present"
    /\ run.result.has /\ run.error = "none"

\* the declared domain of the seven fields
InDomain(x) ==
    /\ x[1] \in {0, 1, 2}
    /\ x[2] \in {0, 1} /\ x[3] \in {0, 1} /\ x[4] \in {0, 1}
    /\ 0 <= x[5] /\ x[5] <= 120
    /\ 0 <= x[6] /\ x[6] <= 365
    /\ 0 <= x[7] /\ x[7] <= 365

\* C7: in every app variant the classifier is never called with a feature
\* vector that has a field outside its declared domain.
C7_Validation ==
    run.scored # <<>> => InDomain(run.scored)

C9_PdfLayout ==
    pdfOut.status = "pdf" =>
        LET content == pdfOut.content
            shown == ShownLines(content, 0, 0, 0)
            n == Len(pdfData)
        IN  /\ Len(shown) = n + 3
            /\ shown[1].text = <<"Xiangya Hospital">>
            /\ shown[2].text = <<"IPN Intra-Abdominal Hemorrhage Risk Report">>
            /\ shown[3].text = <<>>
            /\ \A i \in 1..n :
                  shown[3 + i].text =
                      Str(pdfData[i][1]) \o <<": ">> \o Str(pdfData[i][2])
            /\ shown[1].x = 50 /\ shown[1].y = 800
            /\ \A i \in 2..Len(shown) : shown[i].y = shown[i - 1].y - 14
            /\ \A i, j \in 1..Len(shown) : i # j => shown[i].y # shown[j].y
            /\ OpCount(content, "TL") = 1 /\ OpCount(content, "Tm") = 1
            /\ OpCount(content, "T*") = n + 2
            /\ \A i \in 1..Len(content) :
                  content[i].op = "T*" =>
                      /\ content[i - 1].op = "Tj"
                      /\ content[i + 1].op = "Tj"
            /\ pdfOut.count = 1 /\ Len(pdfOut.kids) = 1

\* C9 witness: a document of two entries whose texts need escaping
C9_Witness ==
    /\ pdfOut.status = "pdf"
    /\ Len(pdfData) = 2
    /\ pdfData[1][1] = PyStr(<<"Age ", "(", "years", ")">>)
    /\ pdfData[2][2] = PyStr(<<")", "\\">>)

\* the band of a percent as printed with one decimal (in tenths)
BandOfPrinted(t) ==
    IF t < 100 THEN "Low" ELSE IF t < 500 THEN "Intermediate" ELSE "High"

\* C10: the category on the result card and in the report is the one the rule
\* (<10 Low, 10 to <50 Intermediate, >=50 High) gives to the percent as it is
\* printed beside it, rounded to one decimal.
C10_ReportConsistency ==
    (variant = "streamlit_app" /\ run.result.has) =>
        run.result.cat = BandOfPrinted(run.result.printed)

====
